---- MODULE Spec2Model ----
(***************************************************************************)
(* A model of callApi (src/tools/finance/api.ts): the dual-backend         *)
(* financial-data adapter.  One call is an async function: it runs         *)
(* synchronously from its start to its first await (the cache check, the   *)
(* credential read, the ticker check, the endpoint dispatch and the        *)
(* issuing of every fetch), and resumes once per network response.         *)
(***************************************************************************)
EXTENDS Naturals, Sequences, FiniteSets, TLC

VARIABLES
    env,      \* process.env: the two credentials, "" when unset
    cache,    \* the cache collaborator: (endpoint, params) -> {data, url}
    calls,    \* the calls made so far, in start order; one record per call
    writer,   \* history: for each cache key, the call that wrote it last
    scope     \* what this behaviour explores: its endpoint and its number of calls

vars == <<env, cache, calls, writer, scope>>

-----------------------------------------------------------------------------
(* Bounds of the model *)

\* calls made in one behaviour
MaxCalls == 2

-----------------------------------------------------------------------------
(* Program constants *)

BASE_URL == "https://api.financialdatasets.ai"

FMP_BASE_URL == "https://financialmodelingprep.com/stable"

-----------------------------------------------------------------------------
(* JSON values, as JavaScript holds them after response.json() *)

JNull == [t |-> "null"]

JUndef == [t |-> "undefined"]

JStr(s) == [t |-> "string", s |-> s]

JArr(items) == [t |-> "array", items |-> items]

JObj(fields) == [t |-> "object", fields |-> fields]

IsArray(v) == v.t = "array"

\* `k in v` for a non-null object v (an array has no such named member)
HasMember(v, k) == v.t = "object" /\ k \in DOMAIN v.fields

\* v[k]: undefined when the member is missing
Member(v, k) == IF HasMember(v, k) THEN v.fields[k] ELSE JUndef

\* { [k]: v }
Single(k, v) == JObj((k :> v))

Keys(v) == IF v.t = "object" THEN DOMAIN v.fields ELSE {}

\* { ...a, ...b }: the members of b win
Spread(a, b) ==
    JObj([k \in Keys(a) \cup Keys(b) |->
            IF k \in Keys(b) THEN b.fields[k] ELSE a.fields[k]])

-----------------------------------------------------------------------------
(* Strings *)

\* String.prototype.includes
Includes(s, pat) ==
    \E i \in 1..(Len(s) + 1) :
        /\ i + Len(pat) - 1 <= Len(s)
        /\ SubSeq(s, i, i + Len(pat) - 1) = pat

-----------------------------------------------------------------------------
(* Parameters: a JavaScript object, its entries in insertion order *)

PStr(s) == [t |-> "string", s |-> s]

PNum(n) == [t |-> "number", n |-> n]

PArr(items) == [t |-> "array", items |-> items]

PUndef == [t |-> "undefined"]

\* params[k]: undefined when there is no such entry
Param(params, k) ==
    IF \E i \in 1..Len(params) : params[i][1] = k
    THEN params[CHOOSE i \in 1..Len(params) : params[i][1] = k][2]
    ELSE PUndef

\* JavaScript truthiness of a parameter value
Truthy(v) ==
    CASE v.t = "string" -> v.s # ""
      [] v.t = "number" -> v.n # 0
      [] v.t = "array" -> TRUE
      [] OTHER -> FALSE

RECURSIVE JoinComma(_)
JoinComma(items) ==
    IF Len(items) = 0 THEN ""
    ELSE IF Len(items) = 1 THEN items[1]
    ELSE items[1] \o "," \o JoinComma(Tail(items))

\* String(value)
StringOf(v) ==
    CASE v.t = "string" -> v.s
      [] v.t = "number" -> ToString(v.n)
      [] v.t = "array" -> JoinComma(v.items)
      [] OTHER -> "undefined"

-----------------------------------------------------------------------------
(* URLs: the address and the query entries, in the order they were appended *)

Url(href, query) == [href |-> href, query |-> query]

\* Mutant: an array is joined into one comma-separated entry
PrimaryEntriesJoined(key, value) ==
    CASE value.t = "undefined" -> <<>>
      [] OTHER -> << <<key, StringOf(value)>> >>

\* The entries one parameter adds to the Primary URL
PrimaryEntries(key, value) ==
    CASE value.t = "undefined" -> <<>>
      [] value.t = "array" -> [i \in 1..Len(value.items) |-> <<key, value.items[i]>>]
      [] OTHER -> << <<key, StringOf(value)>> >>

RECURSIVE PrimaryQuery(_)
PrimaryQuery(params) ==
    IF Len(params) = 0 THEN <<>>
    ELSE PrimaryEntries(params[1][1], params[1][2]) \o PrimaryQuery(Tail(params))

PrimaryUrl(endpoint, params) == Url(BASE_URL \o endpoint, PrimaryQuery(params))

\* The URL fetchFMP builds for one sub-request
FmpUrl(subEndpoint, ticker, fmpKey, params, extraParams, skipSymbol) ==
    Url(FMP_BASE_URL \o subEndpoint,
        (IF skipSymbol THEN <<>> ELSE << <<"symbol", ticker>> >>)
        \o << <<"apikey", fmpKey>> >>
        \o (IF Truthy(Param(params, "limit"))
            THEN << <<"limit", StringOf(Param(params, "limit"))>> >> ELSE <<>>)
        \o (IF Param(params, "period") = PStr("quarterly")
            THEN << <<"period", "quarter">> >> ELSE <<>>)
        \o extraParams)

AggregatedUrl == Url(FMP_BASE_URL \o "/(aggregated)", <<>>)

\* from / to of a date range given by the caller
DateRange(params) ==
    (IF Truthy(Param(params, "start_date"))
     THEN << <<"from", StringOf(Param(params, "start_date"))>> >> ELSE <<>>)
    \o (IF Truthy(Param(params, "end_date"))
        THEN << <<"to", StringOf(Param(params, "end_date"))>> >> ELSE <<>>)

\* new Date() at the call, and 365 days before it, as YYYY-MM-DD
Today == "2026-01-15"

OneYearAgo == "2025-01-15"

-----------------------------------------------------------------------------
(* The Secondary translation table, first match wins *)

\* Mutant: the general predicates are tested before the special ones
RuleOfGeneralFirst(endpoint) ==
    IF Includes(endpoint, "income-statements") THEN "income"
    ELSE IF Includes(endpoint, "balance-sheets") THEN "balance"
    ELSE IF Includes(endpoint, "cash-flow-statements") THEN "cash"
    ELSE IF Includes(endpoint, "/segmented-revenues/") THEN "segments"
    ELSE IF endpoint = "/financials/" THEN "financials"
    ELSE IF Includes(endpoint, "/financial-metrics/") THEN "metrics"
    ELSE IF Includes(endpoint, "/financial-metrics/snapshot/") THEN "metricsSnapshot"
    ELSE IF Includes(endpoint, "/prices/snapshot") THEN "pricesSnapshot"
    ELSE IF endpoint = "/prices/" THEN "prices"
    ELSE IF Includes(endpoint, "/crypto/") THEN "crypto"
    ELSE IF endpoint = "/company/facts" THEN "companyFacts"
    ELSE IF Includes(endpoint, "/analyst-estimates/") THEN "analyst"
    ELSE IF Includes(endpoint, "/insider-trades/") THEN "insider"
    ELSE IF endpoint = "/news/" THEN "news"
    ELSE IF endpoint = "/filings/" THEN "filings"
    ELSE IF Includes(endpoint, "/filings/items/") THEN "filingItems"
    ELSE "unsupported"

RuleOf(endpoint) ==
    IF Includes(endpoint, "income-statements") THEN "income"
    ELSE IF Includes(endpoint, "balance-sheets") THEN "balance"
    ELSE IF Includes(endpoint, "cash-flow-statements") THEN "cash"
    ELSE IF Includes(endpoint, "/segmented-revenues/") THEN "segments"
    ELSE IF endpoint = "/financials/" THEN "financials"
    ELSE IF Includes(endpoint, "/financial-metrics/snapshot/") THEN "metricsSnapshot"
    ELSE IF Includes(endpoint, "/financial-metrics/") THEN "metrics"
    ELSE IF Includes(endpoint, "/crypto/") THEN "crypto"
    ELSE IF Includes(endpoint, "/prices/snapshot") THEN "pricesSnapshot"
    ELSE IF endpoint = "/prices/" THEN "prices"
    ELSE IF endpoint = "/company/facts" THEN "companyFacts"
    ELSE IF Includes(endpoint, "/analyst-estimates/") THEN "analyst"
    ELSE IF Includes(endpoint, "/insider-trades/") THEN "insider"
    ELSE IF endpoint = "/news/" THEN "news"
    ELSE IF endpoint = "/filings/" THEN "filings"
    ELSE IF Includes(endpoint, "/filings/items/") THEN "filingItems"
    ELSE "unsupported"

\* The sub-requests of a rule: <<subEndpoint, subKey>>, in the order issued
SubRequests(rule) ==
    CASE rule = "income" -> << <<"/income-statement", "income_statements">> >>
      [] rule = "balance" -> << <<"/balance-sheet-statement", "balance_sheets">> >>
      [] rule = "cash" -> << <<"/cash-flow-statement", "cash_flow_statements">> >>
      [] rule = "segments" -> << <<"/revenue-product-segmentation", "segmented_revenues">> >>
      [] rule = "financials" ->
            << <<"/income-statement", "income_statements">>,
               <<"/balance-sheet-statement", "balance_sheets">>,
               <<"/cash-flow-statement", "cash_flow_statements">> >>
      [] rule = "metricsSnapshot" -> << <<"/ratios-ttm", "snapshot">> >>
      [] rule = "metrics" -> << <<"/ratios", "financial_metrics">> >>
      [] rule = "pricesSnapshot" -> << <<"/quote", "snapshot">> >>
      [] rule = "prices" -> << <<"/historical-price-eod/full", "prices">> >>
      [] rule = "companyFacts" -> << <<"/profile", "company_facts">> >>
      [] rule = "analyst" -> << <<"/analyst-estimates", "analyst_estimates">> >>
      [] rule = "insider" -> << <<"/insider-trading/search", "insider_trades">> >>
      [] rule = "news" -> << <<"/news/stock", "news">> >>
      [] rule = "filings" -> << <<"/sec-filings-search/symbol", "filings">> >>
      [] OTHER -> <<>>

\* The extraParams argument a rule passes to fetchFMP
ExtraParams(rule, ticker, params) ==
    CASE rule = "prices" -> DateRange(params)
      [] rule = "news" -> << <<"symbols", ticker>> >> \o DateRange(params)
      [] rule = "filings" -> << <<"from", OneYearAgo>>, <<"to", Today>> >>
      [] OTHER -> <<>>

\* Mutant: no rule skips the symbol entry
SkipSymbolNever(rule) == FALSE

SkipSymbol(rule) == rule = "news"

-----------------------------------------------------------------------------
(* Reshaping of a Secondary response *)

\* Mutant: the array is passed through
FirstOrSelfWhole(arr) == arr

\* Array.isArray(arr) ? arr[0] : arr
FirstOrSelf(arr) ==
    IF IsArray(arr)
    THEN (IF Len(arr.items) = 0 THEN JUndef ELSE arr.items[1])
    ELSE arr

\* Mutant: raw.historical, whether or not raw has the member
HistoricalAlways(raw) == Member(raw, "historical")

\* (raw && typeof raw === 'object' && 'historical' in raw) ? raw.historical : raw
HistoricalOrSelf(raw) ==
    IF HasMember(raw, "historical") THEN raw.fields["historical"] ELSE raw

\* Mutant: filings.filter(f => f.type !== wanted)
RECURSIVE FilterByTypeNegated(_, _)
FilterByTypeNegated(items, wanted) ==
    IF Len(items) = 0 THEN <<>>
    ELSE (IF Member(items[1], "type") # JStr(wanted) THEN <<items[1]>> ELSE <<>>)
         \o FilterByTypeNegated(Tail(items), wanted)

\* filings.filter(f => f.type === wanted)
RECURSIVE FilterByType(_, _)
FilterByType(items, wanted) ==
    IF Len(items) = 0 THEN <<>>
    ELSE (IF Member(items[1], "type") = JStr(wanted) THEN <<items[1]>> ELSE <<>>)
         \o FilterByType(Tail(items), wanted)

\* f.type on a null element is a TypeError
FilterThrows(items) == \E i \in 1..Len(items) : items[i].t \in {"null", "undefined"}

FilingsApplies(params, body) == Truthy(Param(params, "filing_type")) /\ IsArray(body)

\* TRUE when the reshaping code of the rule throws on this raw body
ReshapeThrows(rule, params, body) ==
    rule = "filings" /\ FilingsApplies(params, body) /\ FilterThrows(body.items)

\* Mutant: the snapshot rules return the first element itself, not under the
\* result key
ReshapeBare(rule, subKey, params, body) ==
    CASE rule \in {"metricsSnapshot", "pricesSnapshot", "companyFacts"} -> FirstOrSelf(body)
      [] rule = "prices" -> Single(subKey, HistoricalOrSelf(body))
      [] rule = "filings" /\ FilingsApplies(params, body) ->
            Single(subKey,
                   JArr(FilterByType(body.items, StringOf(Param(params, "filing_type")))))
      [] OTHER -> Single(subKey, body)

\* result.data after the rule's shape adjustment, from the raw body of the
\* sub-request (fetchFMP wraps it as { [subKey]: body })
Reshape(rule, subKey, params, body) ==
    CASE rule \in {"metricsSnapshot", "pricesSnapshot", "companyFacts"} ->
            Single(subKey, FirstOrSelf(body))
      [] rule = "prices" -> Single(subKey, HistoricalOrSelf(body))
      [] rule = "filings" /\ FilingsApplies(params, body) ->
            Single(subKey,
                   JArr(FilterByType(body.items, StringOf(Param(params, "filing_type")))))
      [] OTHER -> Single(subKey, body)

\* Mutant: the cash-flow statements are left out of the merge
MergeFinancialsTwo(income, balance, cash) ==
    Single("financials", Spread(income, balance))

\* { financials: { ...income.data, ...balance.data, ...cash.data } }
MergeFinancials(income, balance, cash) ==
    Single("financials", Spread(Spread(income, balance), cash))

\* summarizeData starts with Object.keys(data): a TypeError on null
SummarizeThrows(data) == data.t \in {"null", "undefined"}

-----------------------------------------------------------------------------
(* Error messages, as the code builds them *)

Err(kind, msg) == [kind |-> kind, msg |-> msg]

NoError == Err("", "")

\* describeRequest(endpoint, params): the label used in logs and messages
DescribeRequest(endpoint, params) ==
    IF Truthy(Param(params, "ticker"))
    THEN endpoint \o " " \o StringOf(Param(params, "ticker"))
    ELSE endpoint

StatusText(status) == IF status = 200 THEN "OK" ELSE "Error"

NoCredentialError ==
    Err("NoCredential",
        "No valid financial API key found (requires FINANCIAL_DATASETS_API_KEY or FMP_API_KEY)")

MissingTickerError == Err("MissingTicker", "Ticker is required for FMP API")

CryptoError ==
    Err("UnsupportedByBackend",
        "Cryptocurrency data requires a Financial Datasets API key (FINANCIAL_DATASETS_API_KEY). "
        \o "The FMP API adapter does not support crypto endpoints.")

FilingItemsError ==
    Err("UnsupportedByBackend",
        "SEC filing content retrieval requires a Financial Datasets API key (FINANCIAL_DATASETS_API_KEY). "
        \o "The FMP API only supports filing metadata via get_filings, not full-text content.")

\* Mutant: the message does not name the endpoint
UnsupportedEndpointErrorBare(endpoint) ==
    Err("UnsupportedEndpoint", "Endpoint not supported by FMP adapter yet")

UnsupportedEndpointError(endpoint) ==
    Err("UnsupportedEndpoint", "Endpoint " \o endpoint \o " not supported by FMP adapter yet")

TypeErrorOnNull == Err("TypeError", "Cannot convert undefined or null to object")

\* The error of a Primary request that did not yield a parsed body
PrimaryError(label, outcome) ==
    CASE outcome.kind = "transport" ->
            Err("UpstreamNetworkError",
                "API request failed for " \o label \o ": " \o outcome.message)
      [] outcome.kind = "http" ->
            Err("UpstreamHttpError",
                "API request failed: " \o ToString(outcome.status) \o " "
                \o StatusText(outcome.status))
      [] outcome.kind = "badjson" ->
            Err("UpstreamParseError",
                "API request failed: invalid JSON (" \o ToString(outcome.status) \o " "
                \o StatusText(outcome.status) \o ")")

\* Mutant: the status is not tested, a non-success response goes on to the
\* parsing of its body and fails there
FmpErrorNoOkCheck(label, outcome) ==
    CASE outcome.kind = "transport" ->
            Err("UpstreamNetworkError",
                "FMP API request failed for " \o label \o ": " \o outcome.message)
      [] OTHER ->
            Err("UpstreamParseError",
                "FMP API request failed: invalid JSON (" \o ToString(outcome.status) \o " "
                \o StatusText(outcome.status) \o ")")

\* The error fetchFMP throws for a sub-request that did not yield a parsed body
FmpError(label, outcome) ==
    CASE outcome.kind = "transport" ->
            Err("UpstreamNetworkError",
                "FMP API request failed for " \o label \o ": " \o outcome.message)
      [] outcome.kind = "http" ->
            Err("UpstreamHttpError",
                "FMP API request failed: " \o ToString(outcome.status))
      [] outcome.kind = "badjson" ->
            Err("UpstreamParseError",
                "FMP API request failed: invalid JSON (" \o ToString(outcome.status) \o " "
                \o StatusText(outcome.status) \o ")")

-----------------------------------------------------------------------------
(* The cache collaborator (utils/cache.js) *)

CacheKey(endpoint, params) == <<endpoint, params>>

Entry(data, url) == [data |-> data, url |-> url]

\* readCache: TRUE when an entry is stored under the key
CacheHas(c, endpoint, params) == CacheKey(endpoint, params) \in DOMAIN c

\* readCache: the stored entry
ReadCache(c, endpoint, params) == c[CacheKey(endpoint, params)]

\* writeCache: the cache after the write
WriteCache(c, endpoint, params, data, url) ==
    [k \in DOMAIN c \cup {CacheKey(endpoint, params)} |->
        IF k = CacheKey(endpoint, params) THEN Entry(data, url) ELSE c[k]]

-----------------------------------------------------------------------------
(* The inputs the model draws from *)

Endpoints ==
    { "/financials/income-statements/", "/financials/balance-sheets/",
      "/financials/cash-flow-statements/", "/financials/segmented-revenues/",
      "/financials/", "/financial-metrics/snapshot/", "/financial-metrics/",
      "/crypto/prices/snapshot/", "/crypto/prices/", "/prices/snapshot/",
      "/prices/", "/company/facts", "/analyst-estimates/", "/insider-trades/",
      "/news/", "/filings/", "/filings/items/", "/some/unsupported/endpoint/" }

\* A behaviour of a single call draws its inputs and its responses from the
\* wide sets; a behaviour of several calls draws them from the narrow ones
Wide(sc) == sc.calls = 1

Scopes == [endpoint : Endpoints, calls : 1..MaxCalls]

WideParams ==
    { <<>>,
      << <<"ticker", PStr("")>> >>,
      << <<"ticker", PStr("AAPL")>> >>,
      << <<"ticker", PStr("AAPL")>>, <<"filing_type", PStr("10-K")>> >>,
      << <<"ticker", PStr("AAPL")>>, <<"period", PUndef>>,
         <<"item", PArr(<<"Item-1A", "Item-7", "Item-1A">>)>>, <<"limit", PNum(5)>> >>,
      << <<"ticker", PStr("AAPL")>>, <<"limit", PNum(0)>> >>,
      << <<"ticker", PStr("AAPL")>>, <<"start_date", PStr("2024-01-01")>>,
         <<"end_date", PStr("2024-12-31")>> >>,
      << <<"ticker", PStr("AAPL")>>, <<"start_date", PStr("")>>,
         <<"end_date", PStr("2024-12-31")>> >> }

NarrowParams == { <<>>, << <<"ticker", PStr("AAPL")>> >> }

ParamChoices(sc) == IF Wide(sc) THEN WideParams ELSE NarrowParams

FdKeys == {"", "fd-secret"}

FmpKeys == {"", "fmp-secret"}

Filing(type, id) == JObj([type |-> JStr(type), id |-> JStr(id)])

WideBodies ==
    { JNull,
      JArr(<<>>),
      JArr(<<Filing("10-K", "a"), Filing("8-K", "b"), Filing("10-K", "c")>>),
      JArr(<<JNull>>),
      JObj([historical |-> JArr(<<Filing("8-K", "b")>>)]),
      JObj([symbol |-> JStr("AAPL")]) }

NarrowBodies == { JNull, JArr(<<Filing("10-K", "a")>>) }

Bodies(sc) == IF Wide(sc) THEN WideBodies ELSE NarrowBodies

HttpStatuses(sc) == IF Wide(sc) THEN {401, 500} ELSE {500}

\* What the network does with one request: a transport failure, a non-success
\* status, a success status with an unparseable body, or a parsed body
Outcomes(sc) ==
    { [kind |-> "transport", status |-> 0, message |-> "ECONNRESET", body |-> JUndef] }
    \cup { [kind |-> "http", status |-> st, message |-> "", body |-> JUndef] : st \in HttpStatuses(sc) }
    \cup { [kind |-> "badjson", status |-> 200, message |-> "", body |-> JUndef] }
    \cup { [kind |-> "ok", status |-> 200, message |-> "", body |-> b] : b \in Bodies(sc) }

-----------------------------------------------------------------------------
(* One call of callApi *)

NoResult == Entry(JUndef, Url("", <<>>))

\* a fetch() that was issued: its URL, its x-api-key header ("" when none)
\* and, once answered, how it ended
NoOutcome == [kind |-> "", status |-> 0, message |-> "", body |-> JUndef]

Request(url, header) ==
    [url |-> url, header |-> header, st |-> "inflight", outcome |-> NoOutcome, body |-> JUndef]

\* One more event in the history of the call: "read" and "write" of the
\* cache, "fetch" of a request, "response" (a parsed body) or "failure" of a
\* request, "return" and "throw"
Logged(c, event) == [c EXCEPT !.log = Append(@, event)]

\* The call at its first statement.  order is the history of the answers:
\* the indices of the requests in the order the network answered them
Begin(endpoint, params, cacheable) ==
    [ endpoint |-> endpoint, params |-> params, cacheable |-> cacheable,
      label |-> DescribeRequest(endpoint, params),
      pc |-> "pending", backend |-> "none", rule |-> "", reqs |-> <<>>,
      result |-> NoResult, error |-> NoError,
      hit |-> FALSE, cacheReads |-> 0, cacheWrites |-> 0, wrote |-> NoResult,
      envRead |-> FALSE, tickerChecked |-> FALSE, dispatched |-> FALSE,
      log |-> <<>>, order |-> <<>>,
      id |-> Len(calls) + 1, envAtStart |-> env,
      after |-> {i \in 1..Len(calls) : calls[i].pc # "pending"},
      sawWriter |-> IF CacheKey(endpoint, params) \in DOMAIN writer
                    THEN writer[CacheKey(endpoint, params)] ELSE 0 ]

\* throw: the promise of the call rejects.  Fetches still in flight are
\* orphaned: Promise.all has rejected, and whatever they yield is dropped
Fail(c, err) ==
    [c EXCEPT !.pc = "failed", !.error = err, !.log = Append(@, "throw"),
              !.reqs = [i \in 1..Len(c.reqs) |->
                          IF c.reqs[i].st = "inflight"
                          THEN [c.reqs[i] EXCEPT !.st = "orphaned"]
                          ELSE c.reqs[i]]]

\* return { data, url }
Return(c, data, url) ==
    [c EXCEPT !.pc = "returned", !.result = Entry(data, url), !.log = Append(@, "return")]

\* Mutant: the /filings/items/ rule is missing, the endpoint falls through
DispatchNoFilingItems(c) ==
    LET rule == IF RuleOf(c.endpoint) = "filingItems" THEN "unsupported" ELSE RuleOf(c.endpoint)
        ticker == StringOf(Param(c.params, "ticker"))
        subs == SubRequests(rule)
        d == [c EXCEPT !.dispatched = TRUE, !.rule = rule]
    IN  CASE rule = "crypto" -> Fail(d, CryptoError)
          [] rule = "unsupported" -> Fail(d, UnsupportedEndpointError(c.endpoint))
          [] OTHER ->
                [d EXCEPT !.reqs =
                    [i \in 1..Len(subs) |->
                        Request(FmpUrl(subs[i][1], ticker, env.fmp, c.params,
                                       ExtraParams(rule, ticker, c.params),
                                       SkipSymbol(rule)),
                                "")],
                          !.log = @ \o [i \in 1..Len(subs) |-> "fetch"]]

\* The endpoint dispatch of the Secondary backend, down to the fetches issued
Dispatch(c) ==
    LET rule == RuleOf(c.endpoint)
        ticker == StringOf(Param(c.params, "ticker"))
        subs == SubRequests(rule)
        d == [c EXCEPT !.dispatched = TRUE, !.rule = rule]
    IN  CASE rule = "crypto" -> Fail(d, CryptoError)
          [] rule = "filingItems" -> Fail(d, FilingItemsError)
          [] rule = "unsupported" -> Fail(d, UnsupportedEndpointError(c.endpoint))
          [] OTHER ->
                [d EXCEPT !.reqs =
                    [i \in 1..Len(subs) |->
                        Request(FmpUrl(subs[i][1], ticker, env.fmp, c.params,
                                       ExtraParams(rule, ticker, c.params),
                                       SkipSymbol(rule)),
                                "")],
                          !.log = @ \o [i \in 1..Len(subs) |-> "fetch"]]

\* Mutant: the ticker check is left out
SecondaryStartUnchecked(c) ==
    Dispatch([c EXCEPT !.backend = "secondary", !.tickerChecked = TRUE])

\* Mutant: the rules are tried first, the ticker is checked when one matched
SecondaryStartDispatchFirst(c) ==
    LET t == [c EXCEPT !.backend = "secondary", !.tickerChecked = TRUE]
        d == Dispatch(t)
    IN  IF d.pc = "failed" THEN d
        ELSE IF ~Truthy(Param(c.params, "ticker")) THEN Fail(t, MissingTickerError)
        ELSE d

\* else if (FMP_API_KEY): the ticker check, then the dispatch
SecondaryStart(c) ==
    LET t == [c EXCEPT !.backend = "secondary", !.tickerChecked = TRUE]
    IN  IF ~Truthy(Param(c.params, "ticker"))
        THEN Fail(t, MissingTickerError)
        ELSE Dispatch(t)

\* Mutant: the Primary credential is sent as a query entry, not as a header
PrimaryStartKeyInQuery(c) ==
    [c EXCEPT !.backend = "primary",
              !.reqs = << Request([PrimaryUrl(c.endpoint, c.params) EXCEPT
                                      !.query = Append(@, <<"apikey", env.fd>>)], "") >>,
              !.log = Append(@, "fetch")]

\* if (FINANCIAL_DATASETS_API_KEY): build the URL and fetch it
PrimaryStart(c) ==
    [c EXCEPT !.backend = "primary",
              !.reqs = << Request(PrimaryUrl(c.endpoint, c.params), env.fd) >>,
              !.log = Append(@, "fetch")]

\* Mutant: the Secondary credential is tested first
SelectBackendSecondaryFirst(c) ==
    LET e == [c EXCEPT !.envRead = TRUE]
    IN  IF env.fmp # "" THEN SecondaryStart(e)
        ELSE IF env.fd # "" THEN PrimaryStart(e)
        ELSE Fail(e, NoCredentialError)

\* Mutant: the credentials are read once, when the first call is made, and
\* the backend chosen then is kept
SelectBackendSticky(c) ==
    LET e == [c EXCEPT !.envRead = TRUE]
        seen == IF Len(calls) = 0 THEN env ELSE calls[1].envAtStart
    IN  IF seen.fd # "" THEN PrimaryStart(e)
        ELSE IF seen.fmp # "" THEN SecondaryStart(e)
        ELSE Fail(e, NoCredentialError)

\* Mutant: the final else is missing, Secondary is the default
SelectBackendNoElse(c) ==
    LET e == [c EXCEPT !.envRead = TRUE]
    IN  IF env.fd # "" THEN PrimaryStart(e) ELSE SecondaryStart(e)

\* The credentials are read, and the backend is chosen from them
SelectBackend(c) ==
    LET e == [c EXCEPT !.envRead = TRUE]
    IN  IF env.fd # "" THEN PrimaryStart(e)
        ELSE IF env.fmp # "" THEN SecondaryStart(e)
        ELSE Fail(e, NoCredentialError)

\* Mutant: the credentials are checked before the cache is
CacheCheckAfterCredentials(c) ==
    LET e == [c EXCEPT !.envRead = TRUE]
    IN  IF env.fd = "" /\ env.fmp = ""
        THEN Fail(e, NoCredentialError)
        ELSE IF c.cacheable /\ CacheHas(cache, c.endpoint, c.params)
             THEN Return([e EXCEPT !.cacheReads = @ + 1, !.hit = TRUE, !.backend = "cache"],
                         ReadCache(cache, c.endpoint, c.params).data,
                         ReadCache(cache, c.endpoint, c.params).url)
             ELSE SelectBackend([c EXCEPT !.cacheReads = IF c.cacheable THEN 1 ELSE 0])

\* The cache check that opens the call
CacheCheck(c) ==
    IF c.cacheable
    THEN LET r == Logged([c EXCEPT !.cacheReads = @ + 1], "read")
         IN  IF CacheHas(cache, c.endpoint, c.params)
             THEN LET cached == ReadCache(cache, c.endpoint, c.params)
                      h == [r EXCEPT !.hit = TRUE, !.backend = "cache"]
                  IN  IF SummarizeThrows(cached.data)
                      THEN Fail(h, TypeErrorOnNull)
                      ELSE Return(h, cached.data, cached.url)
             ELSE SelectBackend(r)
    ELSE SelectBackend(c)

\* callApi from its start to its first await (or to its return or throw)
Started(endpoint, params, cacheable) == CacheCheck(Begin(endpoint, params, cacheable))

-----------------------------------------------------------------------------
(* The continuation of a call once its responses are in.  Each operator    *)
(* gives the call and the cache as the continuation leaves them.           *)

After(c, store) == [call |-> c, cache |-> store]

\* The history of cache writes once call c has run its continuation
WriterAfter(c, before) ==
    IF c.cacheWrites > before.cacheWrites
    THEN [k \in DOMAIN writer \cup {CacheKey(c.endpoint, c.params)} |->
            IF k = CacheKey(c.endpoint, c.params) THEN c.id ELSE writer[k]]
    ELSE writer

\* Mutant: the write is made whether or not the call is cacheable
PersistAlways(c, data, url) ==
    After(Logged([c EXCEPT !.cacheWrites = @ + 1, !.wrote = Entry(data, url)], "write"),
          WriteCache(cache, c.endpoint, c.params, data, url))

\* Mutant: the write is left out
PersistNever(c, data, url) == After(c, cache)

\* if (options?.cacheable) writeCache(endpoint, params, data, url)
Persist(c, data, url) ==
    IF c.cacheable
    THEN After(Logged([c EXCEPT !.cacheWrites = @ + 1, !.wrote = Entry(data, url)], "write"),
               WriteCache(cache, c.endpoint, c.params, data, url))
    ELSE After(c, cache)

\* The tail shared by every successful path: cache, log, return
CacheLogReturn(c, data, url) ==
    LET p == Persist(c, data, url)
    IN  IF SummarizeThrows(data)
        THEN After(Fail(p.call, TypeErrorOnNull), p.cache)
        ELSE After(Return(p.call, data, url), p.cache)

\* Mutant: the body is wrapped under a result key
PrimaryCompleteWrapped(c) ==
    CacheLogReturn(c, Single("data", c.reqs[1].body), c.reqs[1].url)

\* Primary: the parsed body is the data
PrimaryComplete(c) == CacheLogReturn(c, c.reqs[1].body, c.reqs[1].url)

\* const returnFMP = (result) => ...
ReturnFMP(c, data, url) == CacheLogReturn(c, data, url)

\* Mutant: the three results are taken in the order they arrived in
FanOutCompleteAsArrived(c) ==
    LET subs == SubRequests(c.rule)
        part(i) == Single(subs[i][2], c.reqs[c.order[i]].body)
    IN  CacheLogReturn(c, MergeFinancials(part(1), part(2), part(3)), AggregatedUrl)

\* Secondary, /financials/: merge the three sub-results
FanOutComplete(c) ==
    LET subs == SubRequests(c.rule)
        part(i) == Single(subs[i][2], c.reqs[i].body)
    IN  CacheLogReturn(c, MergeFinancials(part(1), part(2), part(3)), AggregatedUrl)

\* Mutant: fetchFMP caches its raw sub-result, the reshaping comes after
SingleCompleteRawWrite(c) ==
    LET subKey == SubRequests(c.rule)[1][2]
        body == c.reqs[1].body
        p == Persist(c, Single(subKey, body), c.reqs[1].url)
    IN  IF ReshapeThrows(c.rule, c.params, body)
        THEN After(Fail(p.call, TypeErrorOnNull), p.cache)
        ELSE After(Return(p.call, Reshape(c.rule, subKey, c.params, body), c.reqs[1].url),
                   p.cache)

\* Secondary, one sub-request: reshape, then returnFMP
SingleComplete(c) ==
    LET subKey == SubRequests(c.rule)[1][2]
        body == c.reqs[1].body
    IN  IF ReshapeThrows(c.rule, c.params, body)
        THEN After(Fail(c, TypeErrorOnNull), cache)
        ELSE ReturnFMP(c, Reshape(c.rule, subKey, c.params, body), c.reqs[1].url)

\* Every response of the call has arrived and parsed
Complete(c) ==
    IF c.backend = "primary" THEN PrimaryComplete(c)
    ELSE IF c.rule = "financials" THEN FanOutComplete(c)
    ELSE SingleComplete(c)

\* The error a failed request raises in its call
RequestError(c, outcome) ==
    IF c.backend = "primary"
    THEN PrimaryError(c.label, outcome)
    ELSE FmpError(c.label, outcome)

\* Request r of the call has failed: the sub-results already received are
\* never used
Failed(c, r, outcome) ==
    [c EXCEPT !.reqs = [i \in 1..Len(c.reqs) |->
                          IF i = r
                          THEN [c.reqs[i] EXCEPT !.st = "failed", !.outcome = outcome]
                          ELSE [c.reqs[i] EXCEPT !.body = JUndef]],
              !.log = Append(@, "failure"), !.order = Append(@, r)]

\* Mutant: a Primary failure falls back to the Secondary backend when its
\* credential is set
ResumeFallback(c, r, outcome) ==
    IF outcome.kind # "ok"
    THEN IF c.backend = "primary" /\ env.fmp # ""
         THEN After(SecondaryStart(Failed(c, r, outcome)), cache)
         ELSE After(Fail(Failed(c, r, outcome), RequestError(c, outcome)), cache)
    ELSE LET got == Logged([c EXCEPT !.reqs[r].st = "ok", !.reqs[r].body = outcome.body,
                                     !.order = Append(@, r)],
                           "response")
         IN  IF \E i \in 1..Len(got.reqs) : got.reqs[i].st = "inflight"
             THEN After(got, cache)
             ELSE Complete(got)

\* Mutant: the call goes on when the first response is in (Promise.race)
ResumeRace(c, r, outcome) ==
    IF outcome.kind # "ok"
    THEN After(Fail(Failed(c, r, outcome), RequestError(c, outcome)), cache)
    ELSE Complete(Logged([c EXCEPT !.reqs[r].st = "ok", !.reqs[r].body = outcome.body,
                                   !.order = Append(@, r)],
                         "response"))

\* Mutant: a failed sub-request counts as an empty result (Promise.allSettled)
ResumeSettled(c, r, outcome) ==
    LET got == IF outcome.kind # "ok"
               THEN [c EXCEPT !.reqs[r].st = "failed", !.reqs[r].outcome = outcome,
                              !.reqs[r].body = JNull, !.order = Append(@, r)]
               ELSE [c EXCEPT !.reqs[r].st = "ok", !.reqs[r].body = outcome.body,
                              !.order = Append(@, r)]
    IN  IF \E i \in 1..Len(got.reqs) : got.reqs[i].st = "inflight"
        THEN After(got, cache)
        ELSE Complete(got)

\* One response arrives at a call that awaits it
Resume(c, r, outcome) ==
    IF outcome.kind # "ok"
    THEN After(Fail(Failed(c, r, outcome), RequestError(c, outcome)), cache)
    ELSE LET got == Logged([c EXCEPT !.reqs[r].st = "ok", !.reqs[r].body = outcome.body,
                                     !.order = Append(@, r)],
                           "response")
         IN  IF \E i \in 1..Len(got.reqs) : got.reqs[i].st = "inflight"
             THEN After(got, cache)
             ELSE Complete(got)

-----------------------------------------------------------------------------
(* The state machine *)

Init ==
    /\ env \in [fd : FdKeys, fmp : FmpKeys]
    /\ cache = <<>>
    /\ calls = <<>>
    /\ writer = <<>>
    /\ scope \in Scopes

\* The process environment changes between two steps of the program
SetEnv(fd, fmp) ==
    /\ Len(calls) < scope.calls
    /\ env # [fd |-> fd, fmp |-> fmp]
    /\ env' = [fd |-> fd, fmp |-> fmp]
    /\ UNCHANGED <<cache, calls, writer, scope>>

\* A caller calls callApi(endpoint, params, { cacheable })
CallApi(endpoint, params, cacheable) ==
    /\ Len(calls) < scope.calls
    /\ endpoint = scope.endpoint
    /\ calls' = Append(calls, Started(endpoint, params, cacheable))
    /\ UNCHANGED <<env, cache, writer, scope>>

\* The network answers request r of call i, and the call resumes
Respond(i, r, outcome) ==
    /\ calls[i].pc = "pending"
    /\ calls[i].reqs[r].st = "inflight"
    /\ LET after == Resume(calls[i], r, outcome)
       IN  /\ calls' = [calls EXCEPT ![i] = after.call]
           /\ cache' = after.cache
           /\ writer' = WriterAfter(after.call, calls[i])
    /\ UNCHANGED <<env, scope>>

\* The network answers a request whose call has already failed: Promise.all
\* has rejected, so what the request yields, a body or an error, is dropped
SettleOrphan(i, r) ==
    /\ calls[i].reqs[r].st = "orphaned"
    /\ calls' = [calls EXCEPT ![i].reqs[r].st = "settled"]
    /\ UNCHANGED <<env, cache, writer, scope>>

Next ==
    \/ \E fd \in FdKeys, fmp \in FmpKeys : SetEnv(fd, fmp)
    \/ \E endpoint \in Endpoints, params \in ParamChoices(scope), cacheable \in BOOLEAN :
          CallApi(endpoint, params, cacheable)
    \/ \E i \in 1..Len(calls) : \E r \in 1..Len(calls[i].reqs) : \E outcome \in Outcomes(scope) :
          Respond(i, r, outcome)
    \/ \E i \in 1..Len(calls) : \E r \in 1..Len(calls[i].reqs) : SettleOrphan(i, r)

Spec == Init /\ [][Next]_vars

-----------------------------------------------------------------------------
(* Vocabulary of the properties *)

CallIds == 1..Len(calls)

NoCredentials == [fd |-> "", fmp |-> ""]

SecondaryOnly(e) == e.fd = "" /\ e.fmp # ""

SameRequest(c, d) == c.endpoint = d.endpoint /\ c.params = d.params

HasTicker(c) == Truthy(Param(c.params, "ticker"))

\* The key of the call held an entry when the call started: some call had
\* written it
KeyPresentAtStart(c) == c.sawWriter # 0

\* The entry the key of the call held when the call started
EntryAtStart(c) == calls[c.sawWriter].wrote

\* No call other than i wrote the key between the start of i and the start of j
NoWriteBetween(i, j) == calls[j].sawWriter \in {i, calls[i].sawWriter}

-----------------------------------------------------------------------------
(* C1 *)

\* C1: when a cacheable call j starts after an identical cacheable call i has
\* returned, and no other call wrote the key in between, call j returns
\* without any network request, and its data equals the data call i returned.
C1_SecondCallServedFromCache ==
    \A i \in CallIds : \A j \in CallIds :
        ( /\ i # j
          /\ calls[i].cacheable /\ calls[j].cacheable
          /\ SameRequest(calls[i], calls[j])
          /\ calls[i].pc = "returned"
          /\ i \in calls[j].after
          /\ NoWriteBetween(i, j) )
        => /\ calls[j].pc = "returned"
           /\ Len(calls[j].reqs) = 0
           /\ calls[j].result.data = calls[i].result.data

\* Witness of C1: the first call fetched over the network, the second did not
C1_Witness ==
    \E i \in CallIds : \E j \in CallIds :
        /\ i # j
        /\ calls[i].cacheable /\ calls[j].cacheable
        /\ SameRequest(calls[i], calls[j])
        /\ calls[i].pc = "returned" /\ Len(calls[i].reqs) > 0
        /\ i \in calls[j].after
        /\ calls[j].pc = "returned" /\ Len(calls[j].reqs) = 0
        /\ calls[j].envAtStart # calls[i].envAtStart

-----------------------------------------------------------------------------
(* C2 *)

\* C2, as claimed: with neither credential set, every call fails with
\* NoCredential and performs no network request, no cache read and no cache
\* write.
C2_AsClaimed ==
    \A i \in CallIds :
        calls[i].envAtStart = NoCredentials
        => /\ calls[i].pc = "failed"
           /\ calls[i].error.kind = "NoCredential"
           /\ Len(calls[i].reqs) = 0
           /\ calls[i].cacheReads = 0
           /\ calls[i].cacheWrites = 0

\* C2, amended: with neither credential set, a call performs no network
\* request and no cache write; it reads the cache exactly once when it is
\* cacheable and never otherwise; and unless that read finds its key, it
\* fails with NoCredential.
C2_NoCredential ==
    \A i \in CallIds :
        calls[i].envAtStart = NoCredentials
        => /\ Len(calls[i].reqs) = 0
           /\ calls[i].cacheWrites = 0
           /\ calls[i].cacheReads = (IF calls[i].cacheable THEN 1 ELSE 0)
           /\ ~(calls[i].cacheable /\ KeyPresentAtStart(calls[i]))
                => /\ calls[i].pc = "failed"
                   /\ calls[i].error = NoCredentialError

\* Witness of C2: a cacheable call that missed the cache and failed with
\* NoCredential
C2_Witness ==
    \E i \in CallIds :
        /\ calls[i].envAtStart = NoCredentials
        /\ calls[i].cacheable /\ calls[i].cacheReads = 1
        /\ HasTicker(calls[i])
        /\ calls[i].pc = "failed" /\ calls[i].error.kind = "NoCredential"

-----------------------------------------------------------------------------
(* C3 *)

\* C3: a call reads the cache at most once, and only when it is cacheable; a
\* cacheable call whose key is present returns the entry it read, without
\* reading the credentials, checking the ticker, dispatching on the endpoint,
\* issuing a request or writing the cache.
C3_AsClaimed ==
    \A i \in CallIds :
        /\ calls[i].cacheReads = (IF calls[i].cacheable THEN 1 ELSE 0)
        /\ (calls[i].cacheable /\ KeyPresentAtStart(calls[i]))
            => /\ calls[i].pc = "returned"
               /\ calls[i].result = EntryAtStart(calls[i])
               /\ ~calls[i].envRead
               /\ ~calls[i].tickerChecked
               /\ ~calls[i].dispatched
               /\ Len(calls[i].reqs) = 0
               /\ calls[i].cacheWrites = 0

\* What holds of C3: the order of the steps. A cacheable call whose key is
\* present ends in its first step without reading the credentials, checking
\* the ticker, dispatching, issuing a request or writing the cache; it returns
\* the entry it read when summarizeData accepts the entry's data, and fails
\* with the TypeError of summarizeData when the data is null.
C3_CacheReadFirst ==
    \A i \in CallIds :
        /\ calls[i].cacheReads = (IF calls[i].cacheable THEN 1 ELSE 0)
        /\ calls[i].hit = (calls[i].cacheable /\ KeyPresentAtStart(calls[i]))
        /\ calls[i].hit
            => /\ calls[i].pc # "pending"
               /\ ~calls[i].envRead
               /\ ~calls[i].tickerChecked
               /\ ~calls[i].dispatched
               /\ Len(calls[i].reqs) = 0
               /\ calls[i].cacheWrites = 0
               /\ IF SummarizeThrows(EntryAtStart(calls[i]).data)
                  THEN calls[i].pc = "failed" /\ calls[i].error = TypeErrorOnNull
                  ELSE calls[i].pc = "returned" /\ calls[i].result = EntryAtStart(calls[i])

\* The case that breaks C3: a hit on an entry whose data is null
C3_NullEntryHit ==
    \E i \in CallIds :
        /\ calls[i].hit
        /\ EntryAtStart(calls[i]).data = JNull
        /\ calls[i].pc = "failed"

\* Witness of C3: a hit with no credential set and no ticker given
C3_Witness ==
    \E i \in CallIds :
        /\ calls[i].hit
        /\ calls[i].pc = "returned"
        /\ calls[i].envAtStart = NoCredentials
        /\ calls[i].result = EntryAtStart(calls[i])
        /\ calls[i].result.data # JUndef

-----------------------------------------------------------------------------
(* C4 *)

\* C4: with only the Secondary credential set, a call that is not served from
\* the cache and whose ticker is missing or empty fails with MissingTicker,
\* issues no network request and writes no cache entry.
C4_MissingTicker ==
    \A i \in CallIds :
        ( /\ SecondaryOnly(calls[i].envAtStart)
          /\ ~(calls[i].cacheable /\ KeyPresentAtStart(calls[i]))
          /\ ~HasTicker(calls[i]) )
        => /\ calls[i].pc = "failed"
           /\ calls[i].error.kind = "MissingTicker"
           /\ Len(calls[i].reqs) = 0
           /\ calls[i].cacheWrites = 0
           /\ ~calls[i].dispatched

\* Witness of C4: an empty ticker on a supported endpoint
C4_Witness ==
    \E i \in CallIds :
        /\ SecondaryOnly(calls[i].envAtStart)
        /\ Param(calls[i].params, "ticker") = PStr("")
        /\ RuleOf(calls[i].endpoint) = "income"
        /\ calls[i].error.kind = "MissingTicker"

-----------------------------------------------------------------------------
(* C5 *)

\* The call went to the Primary backend: the Primary credential was set, and
\* the call was not served from the cache
OnPrimary(c) == c.envAtStart.fd # "" /\ ~(c.cacheable /\ KeyPresentAtStart(c))

\* The call went to the Secondary backend
OnSecondary(c) == SecondaryOnly(c.envAtStart) /\ ~(c.cacheable /\ KeyPresentAtStart(c))

\* C5: a Primary call issues a single request, and the data it returns is the
\* parsed body of that request's response, unchanged, for every endpoint.
C5_PrimaryPassThrough ==
    \A i \in CallIds :
        OnPrimary(calls[i])
        => /\ Len(calls[i].reqs) = 1
           /\ calls[i].pc = "returned"
                => /\ calls[i].reqs[1].st = "ok"
                   /\ calls[i].result.data = calls[i].reqs[1].body

\* Witness of C5: a mixed array comes back whole on /filings/ with a
\* filing_type, where the Secondary backend filters
C5_Witness ==
    \E i \in CallIds :
        /\ OnPrimary(calls[i])
        /\ calls[i].endpoint = "/filings/"
        /\ Truthy(Param(calls[i].params, "filing_type"))
        /\ calls[i].pc = "returned"
        /\ IsArray(calls[i].result.data) /\ Len(calls[i].result.data.items) = 3

-----------------------------------------------------------------------------
(* C6 *)

FanOut(c) == OnSecondary(c) /\ c.endpoint = "/financials/" /\ HasTicker(c)

FanOutPaths ==
    << FMP_BASE_URL \o "/income-statement",
       FMP_BASE_URL \o "/balance-sheet-statement",
       FMP_BASE_URL \o "/cash-flow-statement" >>

FanOutKeys == <<"income_statements", "balance_sheets", "cash_flow_statements">>

\* C6: a /financials/ call on the Secondary backend has, from its first step
\* on, exactly three sub-requests: income-statement, balance-sheet-statement
\* and cash-flow-statement; when it returns, data has the single key
\* financials, whose value has exactly the keys income_statements,
\* balance_sheets and cash_flow_statements, each holding the body of its own
\* sub-request.
C6_FanOut ==
    \A i \in CallIds :
        FanOut(calls[i])
        => /\ Len(calls[i].reqs) = 3
           /\ \A r \in 1..3 : calls[i].reqs[r].url.href = FanOutPaths[r]
           /\ (\A r \in 1..3 : calls[i].reqs[r].st = "ok") => calls[i].pc = "returned"
           /\ calls[i].pc = "returned"
                => /\ Keys(calls[i].result.data) = {"financials"}
                   /\ Keys(Member(calls[i].result.data, "financials"))
                        = {FanOutKeys[r] : r \in 1..3}
                   /\ \A r \in 1..3 :
                        /\ calls[i].reqs[r].st = "ok"
                        /\ Member(Member(calls[i].result.data, "financials"), FanOutKeys[r])
                             = calls[i].reqs[r].body

\* Witness of C6: the three sub-requests answered with three different bodies
C6_Witness ==
    \E i \in CallIds :
        /\ FanOut(calls[i])
        /\ calls[i].pc = "returned"
        /\ Cardinality({calls[i].reqs[r].body : r \in 1..3}) = 3

-----------------------------------------------------------------------------
(* C7 *)

FailedRequests(c) == {r \in 1..Len(c.reqs) : c.reqs[r].st = "failed"}

\* C7: in the fan-out, once a sub-request has failed the call has failed with
\* the error of that sub-request, which is the only one whose failure counts;
\* the call returns no data and writes no cache entry, whatever the other two
\* sub-requests did or do.
C7_FanOutFailure ==
    \A i \in CallIds :
        (FanOut(calls[i]) /\ FailedRequests(calls[i]) # {})
        => /\ calls[i].pc = "failed"
           /\ Cardinality(FailedRequests(calls[i])) = 1
           /\ \A r \in FailedRequests(calls[i]) :
                calls[i].error = FmpError(calls[i].label, calls[i].reqs[r].outcome)
           /\ calls[i].result = NoResult
           /\ calls[i].cacheWrites = 0
           /\ calls[i].cacheable => calls[i].id \notin {writer[k] : k \in DOMAIN writer}

\* Witness of C7: the second sub-request failed after the first had succeeded,
\* and the third was answered later
C7_Witness ==
    \E i \in CallIds :
        /\ FanOut(calls[i])
        /\ calls[i].cacheable
        /\ calls[i].reqs[1].st = "ok"
        /\ calls[i].reqs[2].st = "failed"
        /\ calls[i].reqs[3].st = "settled"
        /\ calls[i].error.kind = "UpstreamParseError"

-----------------------------------------------------------------------------
(* C8 *)

\* C8: on the Secondary backend, under the /financial-metrics/snapshot/ rule
\* and the /prices/snapshot rule, a raw body that is an array of one element
\* or more makes the call return, and data.snapshot is the first element of
\* the array, not the array.
C8_SnapshotUnwrap ==
    \A i \in CallIds :
        ( /\ OnSecondary(calls[i])
          /\ calls[i].rule \in {"metricsSnapshot", "pricesSnapshot"}
          /\ calls[i].reqs[1].st = "ok"
          /\ IsArray(calls[i].reqs[1].body)
          /\ Len(calls[i].reqs[1].body.items) >= 1 )
        => /\ calls[i].pc = "returned"
           /\ calls[i].result.data = Single("snapshot", calls[i].reqs[1].body.items[1])
           /\ Member(calls[i].result.data, "snapshot") # calls[i].reqs[1].body

\* Witness of C8: an array of three on /prices/snapshot/
C8_Witness ==
    \E i \in CallIds :
        /\ OnSecondary(calls[i])
        /\ calls[i].endpoint = "/prices/snapshot/"
        /\ calls[i].pc = "returned"
        /\ IsArray(calls[i].reqs[1].body)
        /\ Len(calls[i].reqs[1].body.items) = 3
        /\ Member(calls[i].result.data, "snapshot") = Filing("10-K", "a")

-----------------------------------------------------------------------------
(* C9 *)

\* The positions of the elements of items whose type member is the string t
PositionsOfType(items, t) == {j \in 1..Len(items) : Member(items[j], "type") = JStr(t)}

\* out is the subsequence of items at the positions of type t, in order
IsSubsequenceOfType(out, items, t) ==
    /\ Len(out) = Cardinality(PositionsOfType(items, t))
    /\ \E f \in [1..Len(out) -> PositionsOfType(items, t)] :
        /\ \A a \in 1..Len(out) : \A b \in 1..Len(out) : a < b => f[a] < f[b]
        /\ \A a \in 1..Len(out) : out[a] = items[f[a]]

\* C9: on the Secondary backend, for /filings/ with a filing_type t and a raw
\* body that is an array of objects, the call returns and data.filings is the
\* subsequence of the raw array made of the elements whose type is t, in
\* their original order.
C9_FilingsFilter ==
    \A i \in CallIds :
        ( /\ OnSecondary(calls[i])
          /\ calls[i].endpoint = "/filings/"
          /\ Truthy(Param(calls[i].params, "filing_type"))
          /\ calls[i].reqs[1].st = "ok"
          /\ IsArray(calls[i].reqs[1].body)
          /\ \A j \in 1..Len(calls[i].reqs[1].body.items) :
                calls[i].reqs[1].body.items[j].t = "object" )
        => /\ calls[i].pc = "returned"
           /\ Keys(calls[i].result.data) = {"filings"}
           /\ IsArray(Member(calls[i].result.data, "filings"))
           /\ IsSubsequenceOfType(Member(calls[i].result.data, "filings").items,
                                  calls[i].reqs[1].body.items,
                                  StringOf(Param(calls[i].params, "filing_type")))

\* Witness of C9: of 10-K, 8-K, 10-K the two 10-K are kept, in order
C9_Witness ==
    \E i \in CallIds :
        /\ OnSecondary(calls[i])
        /\ calls[i].endpoint = "/filings/"
        /\ Param(calls[i].params, "filing_type") = PStr("10-K")
        /\ calls[i].pc = "returned"
        /\ IsArray(calls[i].reqs[1].body)
        /\ Len(calls[i].reqs[1].body.items) = 3
        /\ Member(calls[i].result.data, "filings")
             = JArr(<<Filing("10-K", "a"), Filing("10-K", "c")>>)

-----------------------------------------------------------------------------
(* C10 *)

\* No rule of the translation table matches the endpoint
NoRuleMatches(endpoint) ==
    /\ \A part \in { "income-statements", "balance-sheets", "cash-flow-statements",
                     "/segmented-revenues/", "/financial-metrics/snapshot/",
                     "/financial-metrics/", "/crypto/", "/prices/snapshot",
                     "/analyst-estimates/", "/insider-trades/", "/filings/items/" } :
            ~Includes(endpoint, part)
    /\ endpoint \notin {"/financials/", "/prices/", "/company/facts", "/news/", "/filings/"}

\* C10: on the Secondary backend, a call with a ticker whose endpoint matches
\* no rule fails with UnsupportedEndpoint, with a message that contains the
\* endpoint, and issues no network request and writes no cache entry.
C10_UnsupportedEndpoint ==
    \A i \in CallIds :
        ( /\ OnSecondary(calls[i])
          /\ HasTicker(calls[i])
          /\ NoRuleMatches(calls[i].endpoint) )
        => /\ calls[i].pc = "failed"
           /\ calls[i].error.kind = "UnsupportedEndpoint"
           /\ Includes(calls[i].error.msg, calls[i].endpoint)
           /\ Len(calls[i].reqs) = 0
           /\ calls[i].cacheWrites = 0

\* Witness of C10: /some/unsupported/endpoint/, asked as cacheable
C10_Witness ==
    \E i \in CallIds :
        /\ OnSecondary(calls[i])
        /\ calls[i].cacheable
        /\ calls[i].endpoint = "/some/unsupported/endpoint/"
        /\ calls[i].error.kind = "UnsupportedEndpoint"

-----------------------------------------------------------------------------
(* C11 *)

\* One row of the documented translation table: how its pattern matches, the
\* sub-paths it fetches, its result key, and the error it fails with if any
Row(how, pattern, paths, key, error) ==
    [how |-> how, pattern |-> pattern, paths |-> paths, key |-> key, error |-> error]

\* The documented table, top to bottom
TranslationTable ==
    << Row("contains", "income-statements", <<"/income-statement">>, "income_statements", ""),
       Row("contains", "balance-sheets", <<"/balance-sheet-statement">>, "balance_sheets", ""),
       Row("contains", "cash-flow-statements", <<"/cash-flow-statement">>, "cash_flow_statements", ""),
       Row("contains", "/segmented-revenues/", <<"/revenue-product-segmentation">>,
           "segmented_revenues", ""),
       Row("exactly", "/financials/",
           <<"/income-statement", "/balance-sheet-statement", "/cash-flow-statement">>,
           "financials", ""),
       Row("contains", "/financial-metrics/snapshot/", <<"/ratios-ttm">>, "snapshot", ""),
       Row("contains", "/financial-metrics/", <<"/ratios">>, "financial_metrics", ""),
       Row("contains", "/crypto/", <<>>, "", "UnsupportedByBackend"),
       Row("contains", "/prices/snapshot", <<"/quote">>, "snapshot", ""),
       Row("exactly", "/prices/", <<"/historical-price-eod/full">>, "prices", ""),
       Row("exactly", "/company/facts", <<"/profile">>, "company_facts", ""),
       Row("contains", "/analyst-estimates/", <<"/analyst-estimates">>, "analyst_estimates", ""),
       Row("contains", "/insider-trades/", <<"/insider-trading/search">>, "insider_trades", ""),
       Row("exactly", "/news/", <<"/news/stock">>, "news", ""),
       Row("exactly", "/filings/", <<"/sec-filings-search/symbol">>, "filings", ""),
       Row("contains", "/filings/items/", <<>>, "", "UnsupportedByBackend") >>

RowMatches(row, endpoint) ==
    IF row.how = "exactly" THEN endpoint = row.pattern ELSE Includes(endpoint, row.pattern)

MatchingRows(endpoint) ==
    {n \in 1..Len(TranslationTable) : RowMatches(TranslationTable[n], endpoint)}

FirstMatch(endpoint) ==
    CHOOSE n \in MatchingRows(endpoint) : \A m \in MatchingRows(endpoint) : n <= m

\* The addresses the call fetched, in the order it issued them
Fetched(c) == [r \in 1..Len(c.reqs) |-> c.reqs[r].url.href]

\* The call did what the row says
Applied(c, row) ==
    IF row.error # ""
    THEN c.pc = "failed" /\ c.error.kind = row.error /\ Len(c.reqs) = 0
    ELSE /\ Fetched(c) = [r \in 1..Len(row.paths) |-> FMP_BASE_URL \o row.paths[r]]
         /\ c.pc = "returned" => Keys(c.result.data) = {row.key}

\* C11: a Secondary call with a ticker does what the first row of the
\* documented table that matches its endpoint says, whatever later rows match
\* too; it fails with UnsupportedEndpoint when no row matches.  An endpoint
\* that contains /financial-metrics/snapshot/ and matches no earlier row
\* fetches ratios-ttm and never ratios; an endpoint that contains /crypto/ and
\* matches no earlier row fails with UnsupportedByBackend without a request,
\* also when it matches the /prices/snapshot row.
C11_FirstMatchWins ==
    \A i \in CallIds :
        (OnSecondary(calls[i]) /\ HasTicker(calls[i]))
        => LET e == calls[i].endpoint
           IN  /\ IF MatchingRows(e) = {}
                  THEN /\ calls[i].error.kind = "UnsupportedEndpoint"
                       /\ Len(calls[i].reqs) = 0
                  ELSE Applied(calls[i], TranslationTable[FirstMatch(e)])
               /\ (Includes(e, "/financial-metrics/snapshot/") /\ FirstMatch(e) >= 6)
                    => Fetched(calls[i]) = << FMP_BASE_URL \o "/ratios-ttm" >>
               /\ (Includes(e, "/crypto/") /\ FirstMatch(e) >= 8)
                    => /\ calls[i].error.kind = "UnsupportedByBackend"
                       /\ Len(calls[i].reqs) = 0

\* Witness of C11: /crypto/prices/snapshot/ matches the crypto row and the
\* /prices/snapshot row, and fails as the crypto row says
C11_Witness ==
    \E i \in CallIds :
        /\ OnSecondary(calls[i]) /\ HasTicker(calls[i])
        /\ {8, 9} \subseteq MatchingRows(calls[i].endpoint)
        /\ calls[i].error.kind = "UnsupportedByBackend"
        /\ Len(calls[i].reqs) = 0

-----------------------------------------------------------------------------
(* C12 *)

\* The name of the Primary credential, as the messages give it
PrimaryCredentialName == "FINANCIAL_DATASETS_API_KEY"

\* The call wrote no entry that the cache ever held
NeverWrote(c) == c.cacheWrites = 0 /\ c.id \notin {writer[k] : k \in DOMAIN writer}

\* C12: on the Secondary backend, a call with a ticker to an endpoint that
\* contains /filings/items/ fails with UnsupportedByBackend, with a message
\* that names the Primary credential, and issues no network request and
\* writes no cache entry.
C12_FilingItems ==
    \A i \in CallIds :
        ( /\ OnSecondary(calls[i])
          /\ HasTicker(calls[i])
          /\ Includes(calls[i].endpoint, "/filings/items/") )
        => /\ calls[i].pc = "failed"
           /\ calls[i].error.kind = "UnsupportedByBackend"
           /\ Includes(calls[i].error.msg, PrimaryCredentialName)
           /\ Includes(calls[i].error.msg, "SEC filing content")
           /\ Len(calls[i].reqs) = 0
           /\ NeverWrote(calls[i])

\* Witness of C12: /filings/items/, asked as cacheable
C12_Witness ==
    \E i \in CallIds :
        /\ OnSecondary(calls[i]) /\ HasTicker(calls[i])
        /\ calls[i].cacheable
        /\ calls[i].endpoint = "/filings/items/"
        /\ calls[i].error = FilingItemsError
        /\ calls[i].log = <<"read", "throw">>

-----------------------------------------------------------------------------
(* C13 *)

\* The places of an event in the history of a call
Positions(log, event) == {p \in 1..Len(log) : log[p] = event}

\* C13: in the history of every call, the cache read, if any, comes before
\* every fetch; and the cache write, if any, comes after every fetch of the
\* call and after the response of each of them, none having failed.  A call
\* reads the cache at most once and writes it at most once.
C13_CallOrder ==
    \A i \in CallIds :
        LET log == calls[i].log
        IN  /\ Cardinality(Positions(log, "read")) <= 1
            /\ Cardinality(Positions(log, "write")) <= 1
            /\ Cardinality(Positions(log, "fetch")) = Len(calls[i].reqs)
            /\ \A p \in Positions(log, "read") : \A q \in Positions(log, "fetch") : p < q
            /\ \A w \in Positions(log, "write") :
                    /\ Positions(log, "fetch") # {}
                    /\ \A q \in Positions(log, "fetch") : q < w
                    /\ Cardinality({p \in Positions(log, "response") : p < w})
                         = Cardinality(Positions(log, "fetch"))
                    /\ Positions(log, "failure") = {}
                    /\ \A r \in 1..Len(calls[i].reqs) : calls[i].reqs[r].st = "ok"

\* Witness of C13: a cacheable fan-out that read, fetched three times, got
\* three responses, wrote and returned
C13_Witness ==
    \E i \in CallIds :
        /\ FanOut(calls[i])
        /\ calls[i].log = << "read", "fetch", "fetch", "fetch",
                             "response", "response", "response", "write", "return" >>

-----------------------------------------------------------------------------
(* C14 *)

\* What holds of a call that is not cacheable, in every state
NotCacheableState ==
    \A j \in CallIds :
        ~calls[j].cacheable
        => /\ calls[j].cacheReads = 0 /\ Positions(calls[j].log, "read") = {}
           /\ ~calls[j].hit
           /\ NeverWrote(calls[j]) /\ Positions(calls[j].log, "write") = {}
           /\ \A i \in calls[j].after :
                ( /\ SameRequest(calls[i], calls[j])
                  /\ calls[i].envAtStart = calls[j].envAtStart
                  /\ calls[i].pc = "returned" /\ ~calls[i].hit )
                => /\ Len(calls[j].reqs) >= 1
                   /\ Fetched(calls[j]) = Fetched(calls[i])

\* A step that starts or resumes a call that is not cacheable leaves the
\* cache as it was
NotCacheableStep ==
    \A j \in 1..Len(calls') :
        (~calls'[j].cacheable /\ (j > Len(calls) \/ calls'[j] # calls[j]))
        => cache' = cache

\* C14: a call that is not cacheable never reads the cache and never writes
\* it, whether it returns or fails: every step of it leaves the cache
\* unchanged; and when it follows an identical call that fetched and returned
\* under the same credentials, be that call cacheable or not, it issues the
\* same requests itself.
C14_NotCacheable == []NotCacheableState /\ [][NotCacheableStep]_vars

\* Witness of C14: a call that is not cacheable fetches and returns although
\* the cache holds an entry for its key, and leaves that entry as it was
C14_Witness ==
    \E i \in CallIds : \E j \in CallIds :
        /\ calls[i].cacheable /\ ~calls[j].cacheable
        /\ SameRequest(calls[i], calls[j])
        /\ i \in calls[j].after
        /\ calls[i].pc = "returned" /\ calls[j].pc = "returned"
        /\ Len(calls[j].reqs) >= 1
        /\ CacheHas(cache, calls[j].endpoint, calls[j].params)
        /\ ReadCache(cache, calls[j].endpoint, calls[j].params) = calls[i].wrote
        /\ calls[j].result # calls[i].result

-----------------------------------------------------------------------------
(* C15 *)

\* What holds of a cacheable Secondary call that missed the cache and returned
SecondaryWroteOnce ==
    \A i \in CallIds :
        (OnSecondary(calls[i]) /\ calls[i].cacheable /\ calls[i].pc = "returned")
        => /\ calls[i].cacheWrites = 1
           /\ Cardinality(Positions(calls[i].log, "write")) = 1
           /\ calls[i].wrote = calls[i].result
           /\ CacheHas(cache, calls[i].endpoint, calls[i].params)
           /\ writer[CacheKey(calls[i].endpoint, calls[i].params)] = i
                => ReadCache(cache, calls[i].endpoint, calls[i].params) = calls[i].result
           /\ calls[i].rule = "financials"
                => /\ Keys(Member(calls[i].result.data, "financials"))
                        = {FanOutKeys[r] : r \in 1..3}
                   /\ calls[i].result.url = AggregatedUrl
           /\ calls[i].rule # "financials"
                => /\ calls[i].result.data
                        = Reshape(calls[i].rule, SubRequests(calls[i].rule)[1][2],
                                  calls[i].params, calls[i].reqs[1].body)
                   /\ calls[i].result.url = calls[i].reqs[1].url

\* The step in which a Secondary call writes the cache is the step in which it
\* returns, and the write puts what it returns under its own key and leaves
\* every other key alone
SecondaryWriteStep ==
    \A i \in CallIds :
        (OnSecondary(calls[i]) /\ calls'[i].cacheWrites > calls[i].cacheWrites)
        => /\ calls[i].pc = "pending" /\ calls'[i].pc = "returned"
           /\ cache' = WriteCache(cache, calls[i].endpoint, calls[i].params,
                                  calls'[i].result.data, calls'[i].result.url)

\* C15: a cacheable Secondary call that missed the cache and returned wrote
\* the cache exactly once, also in the fan-out, under its own (endpoint,
\* params), and what it wrote is the {data, url} it returned: the assembled
\* and reshaped result, not the raw sub-result.
C15_SecondaryWrite == []SecondaryWroteOnce /\ [][SecondaryWriteStep]_vars

\* Witness of C15: /filings/ with a filing_type; the entry holds the two
\* filings kept by the filter, not the three received
C15_Witness ==
    \E i \in CallIds :
        /\ OnSecondary(calls[i]) /\ calls[i].cacheable
        /\ calls[i].endpoint = "/filings/"
        /\ calls[i].pc = "returned"
        /\ IsArray(calls[i].reqs[1].body) /\ Len(calls[i].reqs[1].body.items) = 3
        /\ ReadCache(cache, calls[i].endpoint, calls[i].params).data
             = Single("filings", JArr(<<Filing("10-K", "a"), Filing("10-K", "c")>>))

-----------------------------------------------------------------------------
(* C16 *)

StartsWith(s, prefix) == Len(s) >= Len(prefix) /\ SubSeq(s, 1, Len(prefix)) = prefix

\* Every request of the call went to the host of this base address
AllSentTo(c, base) == \A r \in 1..Len(c.reqs) : StartsWith(c.reqs[r].url.href, base)

\* What holds of every call, in every state: a failed request has failed the
\* call, every fetch of the call was issued before its first response or
\* failure, and every request went to the host of the one backend chosen
NoRetryNoFallbackState ==
    \A i \in CallIds :
        /\ FailedRequests(calls[i]) # {}
            => /\ calls[i].pc = "failed"
               /\ calls[i].result = NoResult
               /\ calls[i].error = RequestError(calls[i],
                        calls[i].reqs[CHOOSE r \in FailedRequests(calls[i]) : TRUE].outcome)
        /\ \A q \in Positions(calls[i].log, "fetch") :
             \A p \in Positions(calls[i].log, "failure") \cup Positions(calls[i].log, "response") :
                q < p
        /\ calls[i].envAtStart.fd # "" => AllSentTo(calls[i], BASE_URL)
        /\ calls[i].envAtStart.fd = "" => AllSentTo(calls[i], FMP_BASE_URL)
        /\ OnPrimary(calls[i]) => Len(calls[i].reqs) = 1

\* No step issues a request for a call that exists already, or changes the
\* backend of the call
NoRetryNoFallbackStep ==
    \A i \in CallIds :
        /\ Fetched(calls'[i]) = Fetched(calls[i])
        /\ calls'[i].backend = calls[i].backend
        /\ Positions(calls'[i].log, "fetch") = Positions(calls[i].log, "fetch")

\* C16: when a request of a call fails (transport, status or parse), the call
\* fails with that error; the requests of a call are those issued in its
\* first step, none is issued later, and all of them went to the host of the
\* backend chosen, the Primary one when both credentials are set.
C16_NoRetryNoFallback == []NoRetryNoFallbackState /\ [][NoRetryNoFallbackStep]_vars

\* Witness of C16: with both credentials set, the Primary request failed and
\* the call failed after that single request
C16_Witness ==
    \E i \in CallIds :
        /\ calls[i].envAtStart.fd # "" /\ calls[i].envAtStart.fmp # ""
        /\ env = calls[i].envAtStart
        /\ HasTicker(calls[i])
        /\ calls[i].reqs[1].st = "failed"
        /\ calls[i].log = <<"fetch", "failure", "throw">>
        /\ AllSentTo(calls[i], BASE_URL)

-----------------------------------------------------------------------------
(* C17 *)

\* The backend the credentials select
Selected(e) == IF e.fd # "" THEN "primary" ELSE IF e.fmp # "" THEN "secondary" ELSE "none"

\* The values a URL carries under a query key, in order
QueryValues(url, key) ==
    LET hit(entry) == entry[1] = key
        found == SelectSeq(url.query, hit)
    IN  [n \in 1..Len(found) |-> found[n][2]]

\* C17, as claimed: after a call has returned and the credentials have
\* changed, the next call is served by the backend that the new credentials
\* select, or fails with NoCredential when there are none.
C17_AsClaimed ==
    \A j \in CallIds :
        (\E i \in calls[j].after :
            calls[i].pc = "returned" /\ calls[i].envAtStart # calls[j].envAtStart)
        => /\ Selected(calls[j].envAtStart) # "none"
                => calls[j].backend = Selected(calls[j].envAtStart)
           /\ Selected(calls[j].envAtStart) = "none"
                => calls[j].pc = "failed" /\ calls[j].error = NoCredentialError

\* C17, amended: every call that is not served from the cache is served by
\* the backend that the credentials present at that call select, with those
\* credentials in its requests, or fails with NoCredential when there are
\* none, whatever the credentials were at earlier calls and whatever backend
\* served them.
C17_SelectionPerCall ==
    \A j \in CallIds :
        ~(calls[j].cacheable /\ KeyPresentAtStart(calls[j]))
        => /\ calls[j].envRead
           /\ calls[j].backend = Selected(calls[j].envAtStart)
           /\ calls[j].backend = "none"
                => calls[j].pc = "failed" /\ calls[j].error = NoCredentialError
           /\ calls[j].backend = "primary"
                => \A r \in 1..Len(calls[j].reqs) :
                        calls[j].reqs[r].header = calls[j].envAtStart.fd
           /\ calls[j].backend = "secondary"
                => \A r \in 1..Len(calls[j].reqs) :
                        QueryValues(calls[j].reqs[r].url, "apikey") = <<calls[j].envAtStart.fmp>>

\* Witness of C17: a call served by the Primary backend, then, after the
\* Primary credential was removed, a call served by the Secondary backend
C17_Witness ==
    \E i \in CallIds : \E j \in CallIds :
        /\ i \in calls[j].after
        /\ calls[i].envAtStart # calls[j].envAtStart
        /\ calls[i].backend = "primary" /\ calls[i].pc = "returned"
        /\ calls[j].backend = "secondary" /\ calls[j].pc = "returned"
        /\ AllSentTo(calls[j], FMP_BASE_URL) /\ Len(calls[j].reqs) >= 1

-----------------------------------------------------------------------------
(* C18 *)

\* C18: a call that has read the credentials uses one backend.  With the
\* Primary credential set, with or without the Secondary one, its single
\* request goes to the Primary host with the credential in its header and
\* none in its query; with only the Secondary credential set, every request
\* goes to the Secondary host, with no credential header; with neither, the
\* call fails with NoCredential and issues no request.  No call has requests
\* to both hosts.
C18_OneBackend ==
    \A i \in CallIds :
        calls[i].envRead
        => LET e == calls[i].envAtStart
           IN  /\ e.fd # ""
                    => /\ calls[i].backend = "primary"
                       /\ Len(calls[i].reqs) = 1
                       /\ AllSentTo(calls[i], BASE_URL)
                       /\ calls[i].reqs[1].header = e.fd
                       /\ QueryValues(calls[i].reqs[1].url, "apikey") = <<>>
                       /\ ~calls[i].tickerChecked /\ ~calls[i].dispatched
               /\ calls[i].backend = "secondary" <=> (e.fd = "" /\ e.fmp # "")
               /\ calls[i].backend = "secondary"
                    => /\ AllSentTo(calls[i], FMP_BASE_URL)
                       /\ \A r \in 1..Len(calls[i].reqs) : calls[i].reqs[r].header = ""
               /\ (e.fd = "" /\ e.fmp = "")
                    => /\ calls[i].backend = "none"
                       /\ calls[i].pc = "failed" /\ calls[i].error.kind = "NoCredential"
                       /\ Len(calls[i].reqs) = 0
               /\ ~(\E r \in 1..Len(calls[i].reqs) : \E q \in 1..Len(calls[i].reqs) :
                        /\ StartsWith(calls[i].reqs[r].url.href, BASE_URL)
                        /\ StartsWith(calls[i].reqs[q].url.href, FMP_BASE_URL))

\* Witness of C18: with both credentials set, /financials/ is a single
\* Primary request, not the fan-out of the Secondary backend
C18_Witness ==
    \E i \in CallIds :
        /\ calls[i].envAtStart.fd # "" /\ calls[i].envAtStart.fmp # ""
        /\ calls[i].endpoint = "/financials/" /\ HasTicker(calls[i])
        /\ calls[i].backend = "primary"
        /\ Len(calls[i].reqs) = 1
        /\ calls[i].pc = "returned"

-----------------------------------------------------------------------------
(* C19 *)

\* The keys of the parameters
ParamKeys(params) == {params[n][1] : n \in 1..Len(params)}

\* The values the Primary URL has to carry for one parameter
ExpectedValues(value) ==
    CASE value.t = "array" -> value.items
      [] value.t = "undefined" -> <<>>
      [] OTHER -> <<StringOf(value)>>

\* C19: the URL of a Primary request is the base address followed by the
\* endpoint; under the key of an array parameter of n elements it carries n
\* entries, the elements in order with duplicates kept; under the key of a
\* scalar parameter one entry; and it carries no entry under any other key.
C19_PrimaryUrl ==
    \A i \in CallIds :
        OnPrimary(calls[i])
        => LET url == calls[i].reqs[1].url
           IN  /\ url.href = BASE_URL \o calls[i].endpoint
               /\ \A k \in ParamKeys(calls[i].params) :
                    QueryValues(url, k) = ExpectedValues(Param(calls[i].params, k))
               /\ \A n \in 1..Len(url.query) : url.query[n][1] \in ParamKeys(calls[i].params)

\* Witness of C19: item = [Item-1A, Item-7, Item-1A] gives three entries
\* under item, next to the ticker and the limit
C19_Witness ==
    \E i \in CallIds :
        /\ OnPrimary(calls[i])
        /\ Param(calls[i].params, "item").t = "array"
        /\ QueryValues(calls[i].reqs[1].url, "item") = <<"Item-1A", "Item-7", "Item-1A">>
        /\ QueryValues(calls[i].reqs[1].url, "limit") = <<"5">>
        /\ Len(calls[i].reqs[1].url.query) = 5

-----------------------------------------------------------------------------
(* C20 *)

\* The error kind that goes with the way a request failed
KindOf(outcome) ==
    CASE outcome.kind = "transport" -> "UpstreamNetworkError"
      [] outcome.kind = "http" -> "UpstreamHttpError"
      [] outcome.kind = "badjson" -> "UpstreamParseError"

\* What holds in every state: a request the call awaited and that failed has
\* failed the call with the error kind of its failure, the status in the
\* message for the two kinds that have one, and the call returned nothing and
\* wrote nothing; a call that returned without a cache hit had every request
\* answered with a success status and a parsed body
OutcomeDecidesState ==
    \A i \in CallIds :
        /\ \A r \in FailedRequests(calls[i]) :
                LET outcome == calls[i].reqs[r].outcome
                IN  /\ outcome.kind \in {"transport", "http", "badjson"}
                    /\ calls[i].pc = "failed"
                    /\ calls[i].error.kind = KindOf(outcome)
                    /\ outcome.kind = "transport" => Includes(calls[i].error.msg, outcome.message)
                    /\ outcome.kind # "transport"
                         => Includes(calls[i].error.msg, ToString(outcome.status))
                    /\ calls[i].result = NoResult
                    /\ NeverWrote(calls[i])
        /\ (calls[i].pc = "returned" /\ ~calls[i].hit)
            => /\ Len(calls[i].reqs) >= 1
               /\ \A r \in 1..Len(calls[i].reqs) : calls[i].reqs[r].st = "ok"
        /\ \A r \in 1..Len(calls[i].reqs) :
                calls[i].reqs[r].st = "ok" => calls[i].reqs[r].outcome = NoOutcome

\* The step in which a request fails leaves the cache as it was
OutcomeDecidesStep ==
    \A i \in CallIds :
        FailedRequests(calls'[i]) # FailedRequests(calls[i]) => cache' = cache

\* C20: a request that its call awaits ends in one of four ways.  A
\* transport failure fails the call with UpstreamNetworkError, a non-success
\* status with UpstreamHttpError and the status, an unparseable body with
\* UpstreamParseError and the status, and in these three the cache is left
\* unchanged; a call returns data only when every one of its requests had a
\* success status and a parsed body.
C20_OutcomeDecides == []OutcomeDecidesState /\ [][OutcomeDecidesStep]_vars

\* Witness of C20: a cacheable Secondary call whose response has status 200
\* and a body that does not parse
C20_Witness ==
    \E i \in CallIds :
        /\ OnSecondary(calls[i]) /\ calls[i].cacheable
        /\ Len(calls[i].reqs) = 1
        /\ calls[i].reqs[1].st = "failed"
        /\ calls[i].reqs[1].outcome.kind = "badjson"
        /\ calls[i].error.kind = "UpstreamParseError"
        /\ Includes(calls[i].error.msg, "200")
        /\ cache = <<>>

-----------------------------------------------------------------------------
(* C21 *)

\* C21: the message of the error a call raises for a failed request includes
\* the label of the request, and for a status or parse failure the status
\* code too.
C21_AsClaimed ==
    \A i \in CallIds :
        \A r \in FailedRequests(calls[i]) :
            /\ Includes(calls[i].error.msg, calls[i].label)
            /\ calls[i].reqs[r].outcome.kind # "transport"
                => Includes(calls[i].error.msg, ToString(calls[i].reqs[r].outcome.status))

\* What holds of C21: the label is in the message of a transport failure
\* only; the message of a status or parse failure has the status code and
\* neither the label nor the endpoint.
C21_LabelOnlyOnTransport ==
    \A i \in CallIds :
        \A r \in FailedRequests(calls[i]) :
            IF calls[i].reqs[r].outcome.kind = "transport"
            THEN Includes(calls[i].error.msg, calls[i].label)
            ELSE /\ Includes(calls[i].error.msg, ToString(calls[i].reqs[r].outcome.status))
                 /\ ~Includes(calls[i].error.msg, calls[i].label)
                 /\ ~Includes(calls[i].error.msg, calls[i].endpoint)

\* The case that breaks C21: a Secondary request answered 500
C21_StatusWithoutLabel ==
    \E i \in CallIds :
        /\ OnSecondary(calls[i])
        /\ Len(calls[i].reqs) = 1
        /\ calls[i].reqs[1].st = "failed"
        /\ calls[i].reqs[1].outcome.kind = "http"
        /\ calls[i].error.msg = "FMP API request failed: 500"

-----------------------------------------------------------------------------
(* C22 *)

\* What the claim has a sub-request carry under limit
LimitAsClaimed(params) ==
    IF Param(params, "limit") = PUndef THEN <<>> ELSE <<StringOf(Param(params, "limit"))>>

\* C22: every Secondary sub-request carries the caller's limit, as given, as
\* its limit query entry whenever the parameters have a limit, 0 included,
\* and no limit entry when they have none.
C22_AsClaimed ==
    \A i \in CallIds :
        OnSecondary(calls[i])
        => \A r \in 1..Len(calls[i].reqs) :
                QueryValues(calls[i].reqs[r].url, "limit") = LimitAsClaimed(calls[i].params)

\* What holds of C22: a limit that JavaScript takes as true is forwarded as
\* given, on every sub-request; a limit of 0 is dropped, like an absent one.
C22_TruthyLimitForwarded ==
    \A i \in CallIds :
        OnSecondary(calls[i])
        => \A r \in 1..Len(calls[i].reqs) :
                QueryValues(calls[i].reqs[r].url, "limit")
                  = IF Truthy(Param(calls[i].params, "limit"))
                    THEN <<StringOf(Param(calls[i].params, "limit"))>>
                    ELSE <<>>

\* The case that breaks C22: limit 0 on the fan-out, none of the three
\* sub-requests has a limit entry
C22_LimitZeroDropped ==
    \E i \in CallIds :
        /\ FanOut(calls[i])
        /\ Param(calls[i].params, "limit") = PNum(0)
        /\ Len(calls[i].reqs) = 3
        /\ \A r \in 1..3 : QueryValues(calls[i].reqs[r].url, "limit") = <<>>

-----------------------------------------------------------------------------
(* C23 *)

\* Calls i and j are identical and cacheable, j started while i was still
\* pending, and both missed the cache
Racing(i, j) ==
    /\ i < j
    /\ i \notin calls[j].after
    /\ SameRequest(calls[i], calls[j])
    /\ calls[i].cacheable /\ calls[j].cacheable
    /\ ~calls[i].hit /\ ~calls[j].hit

\* Both calls are over and no third call has written their key since
RaceOver(i, j) ==
    /\ calls[i].pc # "pending" /\ calls[j].pc # "pending"
    /\ CacheHas(cache, calls[i].endpoint, calls[i].params)
        => writer[CacheKey(calls[i].endpoint, calls[i].params)] \in {i, j}

\* What the two calls returned
RaceResults(i, j) == {calls[k].result : k \in {k \in {i, j} : calls[k].pc = "returned"}}

\* Each call of the race works for itself: a call that returned has its own
\* requests, all answered; each call wrote at most once, under the key of the
\* request
RaceOwnWork(i, j) ==
    \A k \in {i, j} :
        /\ calls[k].cacheWrites <= 1
        /\ calls[k].pc = "returned"
            => /\ Len(calls[k].reqs) >= 1
               /\ \A r \in 1..Len(calls[k].reqs) : calls[k].reqs[r].st = "ok"
        /\ calls[k].cacheWrites = 1
            => /\ CacheHas(cache, calls[k].endpoint, calls[k].params)
               /\ CacheKey(calls[k].endpoint, calls[k].params) \in DOMAIN writer

\* C23: of two identical cacheable calls that overlap and both miss, each
\* makes its own requests and writes the cache at most once, under the one
\* key of the request; once both are over, the cache holds under that key a
\* value that one of the two returned.
C23_AsClaimed ==
    \A i \in CallIds : \A j \in CallIds :
        Racing(i, j)
        => /\ RaceOwnWork(i, j)
           /\ (RaceOver(i, j)
                /\ (RaceResults(i, j) # {} \/ CacheHas(cache, calls[i].endpoint, calls[i].params)))
               => /\ CacheHas(cache, calls[i].endpoint, calls[i].params)
                  /\ ReadCache(cache, calls[i].endpoint, calls[i].params) \in RaceResults(i, j)

\* What holds of C23: each call of the race works for itself, a call that
\* returned wrote what it returned, and once both are over the cache holds
\* what the later writer of the two wrote.
C23_LastWriterWins ==
    \A i \in CallIds : \A j \in CallIds :
        Racing(i, j)
        => /\ RaceOwnWork(i, j)
           /\ \A k \in {i, j} :
                calls[k].pc = "returned"
                => calls[k].cacheWrites = 1 /\ calls[k].wrote = calls[k].result
           /\ (RaceOver(i, j) /\ CacheHas(cache, calls[i].endpoint, calls[i].params))
               => ReadCache(cache, calls[i].endpoint, calls[i].params)
                    = calls[writer[CacheKey(calls[i].endpoint, calls[i].params)]].wrote

\* The case that breaks C23: both calls of a race are over, one returned its
\* data, and the cache holds an entry with data null that no call returned
C23_NullEntryAfterRace ==
    \E i \in CallIds : \E j \in CallIds :
        /\ Racing(i, j) /\ RaceOver(i, j)
        /\ RaceResults(i, j) # {}
        /\ CacheHas(cache, calls[i].endpoint, calls[i].params)
        /\ ReadCache(cache, calls[i].endpoint, calls[i].params).data = JNull
        /\ \E k \in {i, j} : calls[k].pc = "failed" /\ calls[k].error = TypeErrorOnNull

\* Exactly-once writing is not guaranteed: both calls of a race returned and
\* both wrote
C23_TwoWrites ==
    \E i \in CallIds : \E j \in CallIds :
        /\ Racing(i, j)
        /\ \A k \in {i, j} : calls[k].pc = "returned" /\ calls[k].cacheWrites = 1

\* The races that break C23 all go through a body of null, written to the
\* cache by a call that then throws: the other races end as claimed
C23_ButForNullBody ==
    (\A k \in CallIds : calls[k].error # TypeErrorOnNull) => C23_AsClaimed

-----------------------------------------------------------------------------
(* C24 *)

\* The result keys of the documented table
ResultKeys ==
    { "income_statements", "balance_sheets", "cash_flow_statements", "segmented_revenues",
      "financials", "snapshot", "financial_metrics", "prices", "company_facts",
      "analyst_estimates", "insider_trades", "news", "filings" }

\* C24: a call that the Secondary backend served and that returned has data
\* that is an object with exactly one top-level key, the result key of the
\* first row of the table that matches its endpoint, one of the thirteen
\* documented keys, whatever body the upstream sent.
C24_OneResultKey ==
    \A i \in CallIds :
        (OnSecondary(calls[i]) /\ calls[i].pc = "returned")
        => /\ calls[i].result.data.t = "object"
           /\ Keys(calls[i].result.data) = {TranslationTable[FirstMatch(calls[i].endpoint)].key}
           /\ Keys(calls[i].result.data) \subseteq ResultKeys

\* A snapshot call answered with an empty array returns { snapshot: undefined }:
\* one key still
C24_Witness ==
    \E i \in CallIds :
        /\ OnSecondary(calls[i]) /\ calls[i].pc = "returned"
        /\ calls[i].endpoint = "/financial-metrics/snapshot/"
        /\ Len(calls[i].reqs) = 1
        /\ calls[i].reqs[1].body = JArr(<<>>)
        /\ calls[i].result.data = Single("snapshot", JUndef)

-----------------------------------------------------------------------------
(* C25 *)

\* The query entry a date parameter becomes: one entry with the date when the
\* parameter holds one, none when it is missing or empty
DateEntry(params, key) ==
    IF Param(params, key) \in {PUndef, PStr("")} THEN <<>> ELSE <<StringOf(Param(params, key))>>

C25_PassThrough ==
    \E i \in CallIds :
        /\ OnSecondary(calls[i]) /\ calls[i].endpoint = "/prices/"
        /\ calls[i].pc = "returned"
        /\ Member(calls[i].result.data, "prices") = JObj([symbol |-> JStr("AAPL")])

-----------------------------------------------------------------------------
(* C26 *)

\* The query keys of a URL under which it carries the value
KeysCarrying(url, value) == {n \in 1..Len(url.query) : url.query[n][2] = value}

\* C26: every request of a Secondary call carries the ticker in exactly one
\* query entry: the `symbol` entry, with no `symbols` entry, for every rule
\* but /news/; the `symbols` entry, with no `symbol` entry, for /news/.
C26_TickerOnce ==
    \A i \in CallIds :
        (OnSecondary(calls[i]) /\ HasTicker(calls[i]))
        => \A r \in 1..Len(calls[i].reqs) :
             LET url == calls[i].reqs[r].url
                 ticker == StringOf(Param(calls[i].params, "ticker"))
                 carrier == IF calls[i].endpoint = "/news/" THEN "symbols" ELSE "symbol"
                 other == IF calls[i].endpoint = "/news/" THEN "symbol" ELSE "symbols"
             IN  /\ QueryValues(url, carrier) = <<ticker>>
                 /\ QueryValues(url, other) = <<>>
                 /\ Cardinality(KeysCarrying(url, ticker)) = 1

\* A /news/ request went out with symbols=AAPL and no symbol entry
C26_Witness ==
    \E i \in CallIds :
        /\ OnSecondary(calls[i]) /\ calls[i].endpoint = "/news/"
        /\ Len(calls[i].reqs) = 1
        /\ QueryValues(calls[i].reqs[1].url, "symbols") = <<"AAPL">>
        /\ QueryValues(calls[i].reqs[1].url, "symbol") = <<>>

-----------------------------------------------------------------------------
(* C27 *)

\* Call i is a cacheable call with key k that fetched and returned the entry
ReturnedEntry(i, k, entry) ==
    /\ calls[i].cacheable
    /\ CacheKey(calls[i].endpoint, calls[i].params) = k
    /\ ~calls[i].hit
    /\ Len(calls[i].reqs) >= 1
    /\ calls[i].pc = "returned"
    /\ calls[i].result = entry

\* Only the Secondary credential was set at every call up to call i
SecondaryOnlyUpTo(i) == \A k \in 1..i : SecondaryOnly(calls[k].envAtStart)

\* From an empty cache and with only the Secondary credential ever set, no
\* call for /filings/items/ returns
FilingItemsNeverServed ==
    \A i \in CallIds :
        (Includes(calls[i].endpoint, "/filings/items/") /\ SecondaryOnlyUpTo(i))
        => calls[i].pc # "returned"

\* C27: the cache holds an entry under a key only if a cacheable call with
\* that key fetched and returned, and the entry is what that call returned;
\* a call that failed wrote nothing; and so, with only the Secondary
\* credential ever set, no call for /filings/items/ returns.
C27_AsClaimed ==
    /\ \A k \in DOMAIN cache : \E i \in CallIds : ReturnedEntry(i, k, cache[k])
    /\ \A i \in CallIds : calls[i].pc = "failed" => calls[i].cacheWrites = 0
    /\ FilingItemsNeverServed

\* What holds of C27: every entry is what the last writer of its key wrote,
\* a cacheable call with that key whose requests were all answered; a writer
\* that returned wrote what it returned; a writer that failed is a Primary
\* call whose body was null; /filings/items/ is never served by the
\* Secondary backend alone.
C27_EntriesOfWriters ==
    /\ \A k \in DOMAIN cache :
          /\ k \in DOMAIN writer
          /\ LET w == calls[writer[k]]
             IN  /\ w.cacheable /\ CacheKey(w.endpoint, w.params) = k /\ ~w.hit
                 /\ Len(w.reqs) >= 1
                 /\ \A r \in 1..Len(w.reqs) : w.reqs[r].st = "ok"
                 /\ cache[k] = w.wrote
                 /\ w.pc \in {"returned", "failed"}
                 /\ w.pc = "returned" => w.result = w.wrote
    /\ \A i \in CallIds :
          (calls[i].pc = "failed" /\ calls[i].cacheWrites # 0)
          => /\ calls[i].backend = "primary"
             /\ calls[i].error = TypeErrorOnNull
             /\ calls[i].wrote.data = JNull
    /\ FilingItemsNeverServed

\* The case that breaks C27: a cacheable Primary call was answered with the
\* body null, failed, and its key now holds an entry with data null
C27_EntryOfFailedCall ==
    \E i \in CallIds :
        /\ OnPrimary(calls[i]) /\ calls[i].cacheable
        /\ calls[i].pc = "failed" /\ calls[i].error = TypeErrorOnNull
        /\ CacheHas(cache, calls[i].endpoint, calls[i].params)
        /\ ReadCache(cache, calls[i].endpoint, calls[i].params).data = JNull
        /\ \A j \in CallIds : calls[j].pc # "returned"

\* A /filings/items/ call failed with only the Secondary credential set
C27_FilingItemsRefused ==
    \E i \in CallIds :
        /\ Includes(calls[i].endpoint, "/filings/items/") /\ SecondaryOnlyUpTo(i)
        /\ calls[i].cacheable /\ HasTicker(calls[i])
        /\ calls[i].pc = "failed"

-----------------------------------------------------------------------------
(* C28 *)

\* C28: a Secondary call without a ticker fails with MissingTicker before any
\* rule is tried, whatever its endpoint: also for /crypto/ and
\* /filings/items/ and for an endpoint that no rule matches.  A Primary call
\* without a ticker is not checked for one, does not fail with MissingTicker,
\* and its request goes upstream.
C28_TickerBeforeDispatch ==
    \A i \in CallIds :
        ~HasTicker(calls[i])
        => /\ OnSecondary(calls[i])
               => /\ calls[i].tickerChecked /\ ~calls[i].dispatched
                  /\ calls[i].rule = ""
                  /\ calls[i].pc = "failed"
                  /\ calls[i].error = MissingTickerError
           /\ OnPrimary(calls[i])
               => /\ ~calls[i].tickerChecked
                  /\ calls[i].error.kind # "MissingTicker"
                  /\ Len(calls[i].reqs) = 1
                  /\ calls[i].reqs[1].url.href = BASE_URL \o calls[i].endpoint
                  /\ QueryValues(calls[i].reqs[1].url, "ticker")
                       \in {<<>>, <<"">>}

\* A Secondary call for a crypto endpoint, without a ticker, failed with
\* MissingTicker and not with UnsupportedByBackend
C28_Witness ==
    \E i \in CallIds :
        /\ OnSecondary(calls[i]) /\ ~HasTicker(calls[i])
        /\ Includes(calls[i].endpoint, "/crypto/")
        /\ calls[i].pc = "failed" /\ calls[i].error = MissingTickerError

\* A Primary call without a ticker returned what the upstream sent
C28_PrimaryServed ==
    \E i \in CallIds :
        /\ OnPrimary(calls[i]) /\ ~HasTicker(calls[i])
        /\ calls[i].pc = "returned"

-----------------------------------------------------------------------------
(* C29 *)

\* The URL has the text somewhere: in its address or in a query entry
UrlMentions(url, text) ==
    \/ Includes(url.href, text)
    \/ \E n \in 1..Len(url.query) :
          Includes(url.query[n][1], text) \/ Includes(url.query[n][2], text)

\* The url the call returned, and the one it cached if it cached, is url
GaveUrl(c, url) ==
    /\ c.pc = "returned" => c.result.url = url
    /\ c.cacheWrites > 0 => c.wrote.url = url

\* C29: a Primary call sends its credential in the x-api-key header, and the
\* url it returns and caches is the URL it fetched, which has the credential
\* nowhere.  A Secondary call of one request returns and caches the very URL
\* it fetched, whose apikey entry is the Secondary credential.  The fan-out
\* returns and caches the (aggregated) URL, which has no query and no
\* credential.
C29_ReturnedUrl ==
    \A i \in CallIds :
        LET c == calls[i]
        IN  /\ OnPrimary(c)
                => /\ Len(c.reqs) = 1
                   /\ c.reqs[1].header = c.envAtStart.fd
                   /\ ~UrlMentions(c.reqs[1].url, c.envAtStart.fd)
                   /\ GaveUrl(c, c.reqs[1].url)
            /\ (OnSecondary(c) /\ Len(c.reqs) = 1)
                => /\ c.reqs[1].header = ""
                   /\ QueryValues(c.reqs[1].url, "apikey") = <<c.envAtStart.fmp>>
                   /\ GaveUrl(c, c.reqs[1].url)
            /\ FanOut(c)
                => /\ GaveUrl(c, Url(FMP_BASE_URL \o "/(aggregated)", <<>>))
                   /\ \A r \in 1..Len(c.reqs) :
                         QueryValues(c.reqs[r].url, "apikey") = <<c.envAtStart.fmp>>
                   /\ c.pc = "returned" => ~UrlMentions(c.result.url, c.envAtStart.fmp)

\* A cacheable Primary call returned and cached a url without its credential
C29_Witness ==
    \E i \in CallIds :
        /\ OnPrimary(calls[i]) /\ calls[i].pc = "returned" /\ calls[i].cacheWrites = 1
        /\ calls[i].reqs[1].header = "fd-secret"
        /\ ~UrlMentions(calls[i].result.url, "fd-secret")
        /\ calls[i].wrote.url = calls[i].result.url

\* A cacheable Secondary call of one request returned and cached a url that
\* holds the Secondary credential
C29_SecondaryKeyCached ==
    \E i \in CallIds :
        /\ OnSecondary(calls[i]) /\ Len(calls[i].reqs) = 1
        /\ calls[i].pc = "returned" /\ calls[i].cacheWrites = 1
        /\ QueryValues(calls[i].wrote.url, "apikey") = <<"fmp-secret">>

\* A cacheable fan-out returned and cached the (aggregated) url
C29_FanOutUrl ==
    \E i \in CallIds :
        /\ FanOut(calls[i]) /\ calls[i].pc = "returned" /\ calls[i].cacheWrites = 1
        /\ calls[i].wrote.url = AggregatedUrl

-----------------------------------------------------------------------------
(* C30 *)

\* The orders in which three requests can be answered
Orders == {o \in [1..3 -> 1..3] : \A a, b \in 1..3 : a # b => o[a] # o[b]}

\* C30: in the fan-out the requests are answered in any order, each once;
\* whatever the order, once all three are answered with a body the call
\* returns data.financials holding under income_statements, balance_sheets
\* and cash_flow_statements the body of the first, second and third
\* sub-request, and a cacheable call writes that once; no write is made
\* before the third answer.
C30_AnyCompletionOrder ==
    \A i \in CallIds :
        FanOut(calls[i])
        => LET c == calls[i]
               answered == {c.order[n] : n \in 1..Len(c.order)}
           IN  /\ Cardinality(answered) = Len(c.order)
               /\ answered = {r \in 1..3 : c.reqs[r].st \in {"ok", "failed"}}
               /\ c.cacheWrites > 0
                   => /\ Len(c.order) = 3
                      /\ \A p \in Positions(c.log, "write") :
                            Cardinality({q \in Positions(c.log, "response") : q < p}) = 3
               /\ (\A r \in 1..3 : c.reqs[r].st = "ok")
                   => /\ c.order \in Orders
                      /\ c.pc = "returned"
                      /\ \A r \in 1..3 :
                            c.result.data.fields["financials"].fields[FanOutKeys[r]]
                              = c.reqs[r].body
                      /\ c.cacheable => c.cacheWrites = 1 /\ c.wrote.data = c.result.data

\* The third sub-request was answered first and the first last, with three
\* different bodies, and the call returned and cached them under their keys
C30_Witness ==
    \E i \in CallIds :
        /\ FanOut(calls[i]) /\ calls[i].cacheable /\ calls[i].pc = "returned"
        /\ calls[i].order = <<3, 2, 1>>
        /\ Cardinality({calls[i].reqs[r].body : r \in 1..3}) = 3
        /\ calls[i].cacheWrites = 1

\* The first sub-request was answered second, after the second and before
\* the third
C30_MiddleFirst ==
    \E i \in CallIds :
        /\ FanOut(calls[i]) /\ calls[i].pc = "returned"
        /\ calls[i].order = <<2, 1, 3>>

====
